---- MODULE Spec2Model ----
(***************************************************************************)
(* State-machine model of the DefaultTensor device                         *)
(* (pennylane/beta/plugins/default_tensor.py).                             *)
(*                                                                         *)
(* The device's fields are the variables; every public method (reset,      *)
(* apply, expval, var, sample, _state, the contraction_method setter) is   *)
(* one action.  The private methods are operators on a device record `d`   *)
(* that return a result record [d, exc, val]: the device as the method     *)
(* leaves it, the exception it raised (NoExc when it returned) and its     *)
(* return value.  A raising method keeps every assignment it made before   *)
(* the raise, as in Python.                                                *)
(*                                                                         *)
(* TensorNetwork objects are modelled by identity and meaning:             *)
(*   - a node is a record [id, name, wires, tensor];                       *)
(*   - an edge is the pair <<node id, axis>> of the axis it was created on;*)
(*   - tn.connect(e1, e2) adds {e1, e2} to `conn`; an edge is dangling     *)
(*     when no pair of `conn` holds it;                                    *)
(*   - tensors hold integer amplitudes, flattened row-major (wire 0 is the *)
(*     most significant bit), so a contraction is an exact computation.    *)
(* Node ids number the node objects in the order of their creation since   *)
(* the network was last cleared.                                           *)
(***************************************************************************)
EXTENDS Integers, Sequences, FiniteSets, TLC

VARIABLES
    num_wires,                \* Device.num_wires (constructor argument `wires`)
    shots,                    \* Device.shots
    _rep,                     \* self._rep
    _contraction_method,      \* self._contraction_method
    _nodes,                   \* self._nodes: category -> list of nodes
    _free_wire_edges,         \* self._free_wire_edges: list of edges
    mps,                      \* self.mps: <<>> (None) or <<FiniteMPS>>
    _contracted_state_node,   \* self._contracted_state_node: <<>> (None) or <<Ket>>
    conn,                     \* the connected edge pairs of the live nodes
    next_id,                  \* the number of node objects created since the
                              \* network was last cleared
    contractions,             \* contractions of the pre-measurement network
                              \* since the last _clear_network_data
    call,                     \* the last public call and its arguments
    raised,                   \* the exception the last call raised, or NoExc
    ret,                      \* the value the last call returned
    warnings,                 \* the imaginary parts the last call warned about
    pre                       \* what the device was like when the last call
                              \* was made

vars == <<num_wires, shots, _rep, _contraction_method, _nodes, _free_wire_edges,
          mps, _contracted_state_node, conn, next_id, contractions, call, raised,
          ret, warnings, pre>>

-----------------------------------------------------------------------------
(* Bounds of the model *)

\* gate and observable nodes the registry may hold before a further gate or
\* measurement is no longer explored (reset and state preparation empty it)
MaxNodes == 1
\* the shot count the device is constructed with
Shots == 1

\* one-wire gates applied in a row before a further one is no longer explored
MaxGates == 2

\* observable nodes the registry may hold before a further measurement is no
\* longer explored, in the specification of consecutive measurements
MaxObservables == 2

\* wire counts a device is constructed with
WireCounts == {2, 3}

\* TOL = 1e-10 of line 37: imaginary parts are integers in units of 1e-10
TOL == 1

-----------------------------------------------------------------------------
(* Python values *)

None == <<>>
Some(x) == <<x>>

NoExc == [type |-> "none", msg |-> ""]
Exc(t, m) == [type |-> t, msg |-> m]

\* F applied to the value x
With(x, F(_)) == F(x)

Ok(d, v) == [d |-> d, exc |-> NoExc, val |-> v]
Raise(d, e) == [d |-> d, exc |-> e, val |-> <<>>]

range(n) == [i \in 1..n |-> i - 1]

RECURSIVE pow2(_)
pow2(k) == IF k = 0 THEN 1 ELSE 2 * pow2(k - 1)

RECURSIVE SeqSum(_)
SeqSum(s) == IF s = <<>> THEN 0 ELSE Head(s) + SeqSum(Tail(s))

RECURSIVE SeqProd(_)
SeqProd(s) == IF s = <<>> THEN 1 ELSE Head(s) * SeqProd(Tail(s))

SeqToSet(s) == {s[i] : i \in DOMAIN s}

\* all bit strings of length k
Bits(k) == [1..k -> {0, 1}]

\* row-major flat index (1-based) of the bit string b: numpy.reshape(v, [2] * k)
FlatIndex(b) == 1 + SeqSum([i \in DOMAIN b |-> b[i] * pow2(Len(b) - i)])

\* tuple element of a bit string at 0-based positions ws
Pick(b, ws) == [i \in DOMAIN ws |-> b[ws[i] + 1]]

\* b with the 0-based positions ws overwritten by the bits v
Put(b, ws, v) ==
    [i \in DOMAIN b |->
        IF \E j \in DOMAIN ws : ws[j] + 1 = i
        THEN v[CHOOSE j \in DOMAIN ws : ws[j] + 1 = i]
        ELSE b[i]]

\* the bit string of length k with flat index j (1-based)
BitsOf(j, k) == [i \in 1..k |-> ((j - 1) \div pow2(k - i)) % 2]

\* integer vector indexed by the bit strings of length k, as a flat sequence
FlatVec(k, f(_)) == [i \in 1..pow2(k) |-> f(BitsOf(i, k))]

-----------------------------------------------------------------------------
(* Tensors.  kind "vec": a state tensor with the amplitudes `data`;         *)
(* kind "op": the matrix of the operation or observable `op`, reshaped to  *)
(* [2] * 2k; kind "svd": a factor produced by tn.split_node.               *)

Twos(k) == [i \in 1..k |-> 2]

VecTensor(data, k) ==
    [kind |-> "vec", op |-> "", form |-> "", shape |-> Twos(k), data |-> data]

\* form "": the matrix A of `op` with the parameters `data`; "sq": A @ A;
\* "proj": the projector of A's spectral decomposition with the index data[1];
\* "im" and "imsq": the imaginary parts of A and of A @ A
OpTensorOf(op, form, data, k) ==
    [kind |-> "op", op |-> op, form |-> form, shape |-> Twos(2 * k), data |-> data]

\* np.expand_dims(tensor, 0) followed by np.expand_dims(tensor, -1)
_expand_dims_both(t) == [t EXCEPT !.shape = <<1>> \o t.shape \o <<1>>]

\* self._zero_state = np.array([1.0, 0.0]) and zero_vec[::-1]
_zero_state == VecTensor(<<1, 0>>, 1)
\* a one_vec that is zero_vec, not reversed
one_vec_not_reversed == VecTensor(<<1, 0>>, 1)
one_vec == VecTensor(<<0, 1>>, 1)

Xor(a, b) == (a + b) % 2

\* ops.X, ops.Z, ops.CNOT, ops.CZ, ops.Toffoli, ops.identity: the matrix entry at row
\* `out`, column `inn` (bit strings, first wire first)
MatrixEntry(op, out, inn) ==
    CASE op = "PauliX" -> IF out[1] # inn[1] THEN 1 ELSE 0
      [] op = "PauliZ" -> IF out # inn THEN 0 ELSE IF inn[1] = 0 THEN 1 ELSE -1
      [] op = "Identity" -> IF out = inn THEN 1 ELSE 0
      [] op = "CNOT" ->
            IF out = <<inn[1], Xor(inn[1], inn[2])>> THEN 1 ELSE 0
      [] op = "CZ" ->
            IF out # inn THEN 0 ELSE IF inn = <<1, 1>> THEN -1 ELSE 1
      [] op = "Toffoli" ->
            IF out = <<inn[1], inn[2], Xor(inn[3], inn[1] * inn[2])>> THEN 1 ELSE 0
      [] OTHER -> 0

\* ops.Roty(theta) for theta = turns * pi with turns 1 or -1: the rotation
\* [[cos(theta/2), -sin(theta/2)], [sin(theta/2), cos(theta/2)]]
Roty(turns, out, inn) ==
    IF out = inn THEN 0
    ELSE IF out[1] = 1 THEN turns ELSE -turns

\* ops.Rphi(phi) = diag(1, exp(i phi)) for phi = k * 1e-10 with a small integer
\* k: in double precision cos(phi) is 1 and sin(phi) is phi, so the real part
\* is the identity and the imaginary part, in units of 1e-10, is diag(0, k)
Rphi(phi, out, inn) == IF out = inn THEN 1 ELSE 0

RphiImag(phi, out, inn) == IF out = inn /\ inn[1] = 1 THEN phi ELSE 0

\* the real part of entry (out, inn) of the matrix _get_operator_matrix
\* returns for the operator `op` with the parameters `data`
OperatorEntry(op, data, out, inn) ==
    CASE op = "RY" -> Roty(data[1], out, inn)
      [] op = "PhaseShift" -> Rphi(data[1], out, inn)
      [] OTHER -> MatrixEntry(op, out, inn)

\* its imaginary part, in units of 1e-10
OperatorImag(op, data, out, inn) ==
    IF op = "PhaseShift" THEN RphiImag(data[1], out, inn) ELSE 0

\* ops.spectral_decomposition(A): the eigenvalues of the observable, and entry
\* (out, inn) of the projector onto the i-th eigenspace
Eigenvalues(op) ==
    CASE op = "PauliZ" -> <<1, -1>>
      [] op = "Identity" -> <<1>>
      [] op = "CZ" -> <<-1, 1, 1, 1>>
      [] OTHER -> <<>>

ProjectorEntry(op, i, out, inn) ==
    CASE op = "PauliZ" -> IF out = inn /\ inn[1] = i - 1 THEN 1 ELSE 0
      [] op = "Identity" -> IF out = inn THEN 1 ELSE 0
      [] op = "CZ" ->
            IF out = inn /\ inn = <<<<1, 1>>, <<0, 0>>, <<0, 1>>, <<1, 0>>>>[i]
            THEN 1 ELSE 0
      [] OTHER -> 0

\* entry (out, inn) of the matrix an operator tensor was reshaped from
TensorMatrixEntry(t, out, inn) ==
    CASE t.form = "" -> OperatorEntry(t.op, t.data, out, inn)
      [] t.form = "sq" ->
            SeqSum([j \in 1..pow2(Len(out)) |->
                OperatorEntry(t.op, t.data, out, BitsOf(j, Len(out)))
                  * OperatorEntry(t.op, t.data, BitsOf(j, Len(out)), inn)])
      [] t.form = "proj" -> ProjectorEntry(t.op, t.data[1], out, inn)
      [] t.form = "im" -> OperatorImag(t.op, t.data, out, inn)
      [] t.form = "imsq" ->
            SeqSum([j \in 1..pow2(Len(out)) |->
                OperatorEntry(t.op, t.data, out, BitsOf(j, Len(out)))
                  * OperatorImag(t.op, t.data, BitsOf(j, Len(out)), inn)
                + OperatorImag(t.op, t.data, out, BitsOf(j, Len(out)))
                  * OperatorEntry(t.op, t.data, BitsOf(j, Len(out)), inn)])
      [] OTHER -> 0

\* the tensor of the imaginary part of an operator tensor
ImagPart(t) == [t EXCEPT !.form = IF @ = "sq" THEN "imsq" ELSE "im"]

\* whether the matrix of an operator tensor is real
IsReal(t) == t.kind # "op" \/ t.op # "PhaseShift"

\* entry of a tensor at the index tuple idx (one bit per axis); for an operator
\* the first half of the axes are the outputs and the second half the inputs
Entry(t, idx) ==
    IF t.kind = "vec" THEN t.data[FlatIndex(idx)]
    ELSE LET k == Len(idx) \div 2
         IN  TensorMatrixEntry(t, SubSeq(idx, 1, k), SubSeq(idx, k + 1, 2 * k))

\* the state A|psi> with the operator tensor t acting on the wires ws of an
\* n-wire state
ApplyTensor(psi, n, t, ws) ==
    LET k == Len(ws)
        amp(b) == SeqSum([j \in 1..pow2(k) |->
                     TensorMatrixEntry(t, Pick(b, ws), BitsOf(j, k))
                       * psi[FlatIndex(Put(b, ws, BitsOf(j, k)))]])
    IN  FlatVec(n, amp)

\* Kronecker product of two flat vectors
Kron2(a, b) ==
    [i \in 1..(Len(a) * Len(b)) |->
        a[((i - 1) \div Len(b)) + 1] * b[((i - 1) % Len(b)) + 1]]

RECURSIVE Kron(_)
Kron(vs) == IF vs = <<>> THEN <<1>> ELSE Kron2(Head(vs), Kron(Tail(vs)))

-----------------------------------------------------------------------------
(* Nodes and edges *)

Node(id, name, wires, tensor) ==
    [id |-> id, name |-> name, wires |-> wires, tensor |-> tensor]

Rank(node) == Len(node.tensor.shape)

\* node[axis]; a negative axis counts from the end
EdgeOf(node, axis) == <<node.id, IF axis < 0 THEN Rank(node) + axis ELSE axis>>

\* node.edges
Edges(node) == [a \in 1..Rank(node) |-> <<node.id, a - 1>>]

Connected(cn, e) == \E p \in cn : e \in p
Dangling(cn, e) == ~Connected(cn, e)

\* tn.connect(e1, e2)
Connect(cn, e1, e2) == cn \cup {{e1, e2}}

Keys == {"state", "observables"}

NodesOf(d, key) == IF key \in DOMAIN d._nodes THEN d._nodes[key] ELSE <<>>

\* the identity of the next node object created: nodes are numbered in the
\* order of their creation since the network was last cleared
FreshId(d) == d.next_id
NewNode(d) == [d EXCEPT !.next_id = @ + 1]

-----------------------------------------------------------------------------
(* The device record the private methods work on *)

Dev == [num_wires |-> num_wires, shots |-> shots, _rep |-> _rep,
        _contraction_method |-> _contraction_method, _nodes |-> _nodes,
        _free_wire_edges |-> _free_wire_edges, mps |-> mps,
        _contracted_state_node |-> _contracted_state_node, conn |-> conn,
        next_id |-> next_id, contractions |-> contractions, warnings |-> <<>>]

\* the FiniteMPS object: its site nodes and the state the chain represents
\* (no truncation is configured, so the chain is an exact factorization)
FiniteMPS(nodeIds, psi) == [nodes |-> nodeIds, psi |-> psi]

\* the empty dictionary {}
EmptyDict == [k \in {} |-> <<>>]

\* a _clear_network_data that also puts the contraction method back to "auto"
_clear_network_data_and_method(d) ==
    [d EXCEPT !._nodes = EmptyDict,
              !._free_wire_edges = <<>>,
              !.mps = None,
              !._contracted_state_node = None,
              !.conn = {},
              !.next_id = 0,
              !.contractions = 0,
              !._contraction_method = "auto"]

\* a _clear_network_data that leaves the contracted state in place
_clear_network_data_keeping_cache(d) ==
    [d EXCEPT !._nodes = EmptyDict,
              !._free_wire_edges = <<>>,
              !.mps = None,
              !.conn = {},
              !.next_id = 0]

_clear_network_data(d) ==
    [d EXCEPT !._nodes = EmptyDict,
              !._free_wire_edges = <<>>,
              !.mps = None,
              !._contracted_state_node = None,
              !.conn = {},
              !.next_id = 0,
              !.contractions = 0]

\* _add_node: returns [d, node]
_add_node(d, A, wires, name, key) ==
    LET node == Node(FreshId(d), name, wires, A)
        lst == IF key \notin DOMAIN d._nodes THEN <<>> ELSE d._nodes[key]
    IN  [d |-> [NewNode(d) EXCEPT !._nodes =
                    [k \in (DOMAIN d._nodes) \cup {key} |->
                        IF k = key THEN Append(lst, node) ELSE d._nodes[k]]],
         node |-> node]

ShapeError == Exc("ValueError", "Tensor provided has shape incompatible with provided sequence of wires")
LengthError == Exc("ValueError", "tensors, wires, and names must all be the same length.")
ConsecutiveError == Exc("NotImplementedError",
    "Multi-wire state initializations only supported for tensors on consecutive wires.")

Min(a, b) == IF a < b THEN a ELSE b
SeqMax(s) == CHOOSE x \in SeqToSet(s) : \A y \in SeqToSet(s) : y <= x
SeqMin(s) == CHOOSE x \in SeqToSet(s) : \A y \in SeqToSet(s) : x <= y

\* the loop of lines 201-208, from its i-th iteration on
RECURSIVE _add_initial_state_nodes_exact(_, _, _, _, _)
_add_initial_state_nodes_exact(d, tensors, wires, names, i) ==
    IF i > Len(tensors) THEN Ok(d, <<>>)
    ELSE IF Len(tensors[i].shape) # Len(wires[i]) THEN Raise(d, ShapeError)
    ELSE LET r == _add_node(d, tensors[i], wires[i], names[i], "state")
             d2 == [r.d EXCEPT !._free_wire_edges = @ \o Edges(r.node)]
         IN  _add_initial_state_nodes_exact(d2, tensors, wires, names, i + 1)

\* the factor tn.split_node leaves on a wire: bond dimensions without truncation
SvdTensor(bl, br) ==
    [kind |-> "svd", op |-> "", form |-> "", shape |-> <<bl, 2, br>>, data |-> <<>>]

\* the loop of lines 231-239 over the wires of one multi-wire tensor, from
\* position idx (1-based) on; bl is the left bond dimension of the remainder DV.
\* Returns [d, ids]: the device and the ids of the chain nodes created.
RECURSIVE _split_tensor(_, _, _, _, _, _)
_split_tensor(d, wires_seq, name, idx, bl, ids) ==
    IF idx > Len(wires_seq) THEN [d |-> d, ids |-> ids]
    ELSE LET k == Len(wires_seq)
             br == IF idx < k THEN Min(2 * bl, pow2(k - idx)) ELSE 1
             r == _add_node(d, SvdTensor(bl, br), <<wires_seq[idx]>>, name, "state")
         IN  _split_tensor(r.d, wires_seq, name, idx + 1, br, Append(ids, r.node.id))

\* the loop of lines 212-239, from its i-th iteration on; ids are the chain
\* nodes and parts the state tensors collected so far
RECURSIVE _add_initial_state_nodes_mps(_, _, _, _, _, _, _)
_add_initial_state_nodes_mps(d, tensors, wires, names, i, ids, parts) ==
    IF i > Len(tensors)
    THEN Ok([d EXCEPT !.mps = Some(FiniteMPS(ids, Kron(parts))),
                      !._free_wire_edges = [j \in DOMAIN ids |-> <<ids[j], 1>>]],
            <<>>)
    ELSE IF Len(tensors[i].shape) # Len(wires[i]) THEN Raise(d, ShapeError)
    ELSE LET tensor == _expand_dims_both(tensors[i])
         IN  IF tensor.shape = <<1, 2, 1>>
             THEN LET r == _add_node(d, tensor, wires[i], names[i], "state")
                  IN  _add_initial_state_nodes_mps(r.d, tensors, wires, names, i + 1,
                          Append(ids, r.node.id), Append(parts, tensor.data))
             ELSE IF SeqMax(wires[i]) - SeqMin(wires[i]) # Len(wires[i]) - 1
             THEN Raise(d, ConsecutiveError)
             ELSE LET r == _split_tensor(d, wires[i], names[i], 1, 1, <<>>)
                  IN  _add_initial_state_nodes_mps(r.d, tensors, wires, names, i + 1,
                          ids \o r.ids, Append(parts, tensor.data))

_add_initial_state_nodes(d, tensors, wires, names) ==
    IF ~(Len(tensors) = Len(wires) /\ Len(wires) = Len(names))
    THEN Raise(d, LengthError)
    ELSE IF d._rep = "exact"
    THEN _add_initial_state_nodes_exact(
             [d EXCEPT !._free_wire_edges = <<>>], tensors, wires, names, 1)
    ELSE IF d._rep = "mps"
    THEN _add_initial_state_nodes_mps(d, tensors, wires, names, 1, <<>>, <<>>)
    ELSE Ok(d, <<>>)

\* a reset() that adds the initial state nodes to the network it finds
reset_keeping_network(d) ==
    _add_initial_state_nodes(
        d,
        [i \in 1..d.num_wires |-> _zero_state],
        [i \in 1..d.num_wires |-> <<i - 1>>],
        [i \in 1..d.num_wires |-> "ZeroState"])

reset(d) ==
    _add_initial_state_nodes(
        _clear_network_data(d),
        [i \in 1..d.num_wires |-> _zero_state],
        [i \in 1..d.num_wires |-> <<i - 1>>],
        [i \in 1..d.num_wires |-> "ZeroState"])

-----------------------------------------------------------------------------
(* apply() *)

InvalidWires == Exc("ValueError", "The default.tensor plugin can apply the operation only to all of the wires.")
StateVectorError == Exc("ValueError", "State vector must be of length 2**wires.")
BasisStateError == Exc("ValueError",
    "BasisState parameter must be an array of 0 or 1 integers of length at most num_wires.")
NearestNeighbourGateError == Exc("NotImplementedError",
    "Multi-wire gates only supported for nearest-neighbour wire pairs.")
IndexError == Exc("IndexError", "index out of range")
KeyError == Exc("KeyError", "key not found")
AttributeError == Exc("AttributeError", "'NoneType' object has no attribute")
\* an error raised inside the TensorNetwork library
TnError == Exc("ValueError", "tensornetwork")

StatePreps == {"QubitStateVector", "BasisState"}

\* a parameter array par[0]: its number of dimensions and its (flattened) data
Par(ndim, data) == [ndim |-> ndim, data |-> data]
NoPar == Par(0, <<>>)

\* a wires argument: None, or a list
WiresNone == [none |-> TRUE, list |-> <<>>]
WiresList(l) == [none |-> FALSE, list |-> l]

\* an _add_state_prep_nodes that takes a state vector of any number of
\* dimensions
_add_state_prep_nodes_any_ndim(d, operation, par) ==
    IF operation = "QubitStateVector"
    THEN IF Len(par.data) = pow2(d.num_wires)
         THEN _add_initial_state_nodes(d,
                  <<VecTensor(par.data, d.num_wires)>>,
                  <<range(d.num_wires)>>,
                  <<operation>>)
         ELSE Raise(d, StateVectorError)
    ELSE LET n == Len(par.data)
         IN  IF n = 0 \/ n > d.num_wires \/ ~(SeqToSet(par.data) \subseteq {0, 1})
             THEN Raise(d, BasisStateError)
             ELSE IF n < d.num_wires
             THEN Raise(d, IndexError)
             ELSE _add_initial_state_nodes(d,
                      [w \in 1..d.num_wires |->
                          IF par.data[w] = 0 THEN _zero_state ELSE one_vec],
                      [w \in 1..d.num_wires |-> <<w - 1>>],
                      [w \in 1..d.num_wires |-> operation])

_add_state_prep_nodes(d, operation, par) ==
    IF operation = "QubitStateVector"
    THEN IF par.ndim = 1 /\ Len(par.data) = pow2(d.num_wires)
         THEN _add_initial_state_nodes(d,
                  <<VecTensor(par.data, d.num_wires)>>,
                  <<range(d.num_wires)>>,
                  <<operation>>)
         ELSE Raise(d, StateVectorError)
    ELSE LET n == Len(par.data)
         IN  IF n = 0 \/ n > d.num_wires \/ ~(SeqToSet(par.data) \subseteq {0, 1})
             THEN Raise(d, BasisStateError)
             ELSE IF n < d.num_wires
             THEN Raise(d, IndexError)    \* par[0][wire] for wire >= n, line 297
             ELSE _add_initial_state_nodes(d,
                      [w \in 1..d.num_wires |->
                          IF par.data[w] = 0 THEN _zero_state ELSE one_vec],
                      [w \in 1..d.num_wires |-> <<w - 1>>],
                      [w \in 1..d.num_wires |-> operation])

\* a loop that connects the output axis of the gate and leaves the input axis
\* in the table
RECURSIVE _connect_gate_exact_outputs(_, _, _, _)
_connect_gate_exact_outputs(d, op_node, wires, idx) ==
    IF idx > Len(wires) THEN Ok(d, <<>>)
    ELSE LET w == wires[idx]
             num == Len(wires)
         IN  IF w + 1 > Len(d._free_wire_edges) THEN Raise(d, IndexError)
             ELSE IF Connected(d.conn, d._free_wire_edges[w + 1]) THEN Raise(d, TnError)
             ELSE _connect_gate_exact_outputs(
                      [d EXCEPT !.conn = Connect(@, EdgeOf(op_node, idx - 1),
                                                 d._free_wire_edges[w + 1]),
                                !._free_wire_edges[w + 1] = EdgeOf(op_node, num + idx - 1)],
                      op_node, wires, idx + 1)

\* the loop of lines 317-319, from position idx (1-based) on
RECURSIVE _connect_gate_exact(_, _, _, _)
_connect_gate_exact(d, op_node, wires, idx) ==
    IF idx > Len(wires) THEN Ok(d, <<>>)
    ELSE LET w == wires[idx]
             num == Len(wires)
         IN  IF w + 1 > Len(d._free_wire_edges) THEN Raise(d, IndexError)
             ELSE IF Connected(d.conn, d._free_wire_edges[w + 1]) THEN Raise(d, TnError)
             ELSE _connect_gate_exact(
                      [d EXCEPT !.conn = Connect(@, EdgeOf(op_node, num + idx - 1),
                                                 d._free_wire_edges[w + 1]),
                                !._free_wire_edges[w + 1] = EdgeOf(op_node, idx - 1)],
                      op_node, wires, idx + 1)

\* FiniteMPS.apply_one_site_gate / apply_two_site_gate on the sites `wires`:
\* the gate is contracted into the chain, whose nodes on those sites are replaced
RECURSIVE ReplaceSites(_, _, _)
ReplaceSites(d, sites, i) ==
    IF i > Len(sites) THEN d
    ELSE ReplaceSites(
             [NewNode(d) EXCEPT !.mps[1].nodes[sites[i] + 1] = FreshId(d)],
             sites, i + 1)

MpsApplyGate(d, op_node, wires) ==
    LET d2 == ReplaceSites(d, wires, 1)
    IN  [d2 EXCEPT !.mps[1].psi = ApplyTensor(@, d.num_wires, op_node.tensor, wires)]

\* a gate that leaves the table on the chain nodes it replaced
RefreshFreeEdges_left(d, wires, i) == Ok(d, <<>>)

\* mps.nodes[wire][1] for the wires of the gate
RECURSIVE RefreshFreeEdges(_, _, _)
RefreshFreeEdges(d, wires, i) ==
    IF i > Len(wires) THEN Ok(d, <<>>)
    ELSE IF wires[i] + 1 > Len(d._free_wire_edges) THEN Raise(d, IndexError)
    ELSE RefreshFreeEdges(
             [d EXCEPT !._free_wire_edges[wires[i] + 1] =
                           <<d.mps[1].nodes[wires[i] + 1], 1>>],
             wires, i + 1)

Abs(x) == IF x < 0 THEN -x ELSE x

\* the matrix of the operation with its parameters, reshaped to [2] * num * 2
_get_operator_matrix(operation, par, num) ==
    OpTensorOf(operation, "", par.data, num)

\* libDescending: whether FiniteMPS.apply_two_site_gate accepts site2 < site1
\* (the library's answer is not part of this repository)
_add_gate_nodes(d, operation, wires, par, libDescending) ==
    LET num == Len(wires)
        r == _add_node(d, _get_operator_matrix(operation, par, num), wires,
                       operation, "state")
        op_node == r.node
        d1 == r.d
        physicalFree == \A i \in DOMAIN wires :
                           Dangling(d1.conn, <<d1.mps[1].nodes[wires[i] + 1], 1>>)
    IN  IF d._rep = "exact" THEN _connect_gate_exact(d1, op_node, wires, 1)
        ELSE IF d._rep = "mps"
        THEN IF num = 1
             THEN IF d1.mps = None THEN Raise(d1, AttributeError)
                  ELSE IF ~physicalFree THEN Raise(d1, TnError)
                  ELSE RefreshFreeEdges(MpsApplyGate(d1, op_node, wires), wires, 1)
             ELSE IF num = 2
             THEN IF Abs(wires[2] - wires[1]) = 1
                  THEN IF d1.mps = None THEN Raise(d1, AttributeError)
                       ELSE IF ~physicalFree THEN Raise(d1, TnError)
                       ELSE IF wires[2] < wires[1] /\ ~libDescending
                       THEN Raise(d1, TnError)
                       ELSE RefreshFreeEdges(MpsApplyGate(d1, op_node, wires), wires, 1)
                  ELSE Raise(d1, NearestNeighbourGateError)
             ELSE Raise(d1, NearestNeighbourGateError)
        ELSE Ok(d1, <<>>)

\* an apply() that prepares a state whatever the wires argument is
apply_on_any_wires(d, operation, wires, par, libDescending) ==
    IF operation \in StatePreps
    THEN _add_state_prep_nodes(_clear_network_data(d), operation, par)
    ELSE _add_gate_nodes(d, operation, wires.list, par, libDescending)

apply(d, operation, wires, par, libDescending) ==
    IF operation \in StatePreps
    THEN IF ~wires.none /\ wires.list # <<>> /\ wires.list # range(d.num_wires)
         THEN Raise(d, InvalidWires)
         ELSE _add_state_prep_nodes(_clear_network_data(d), operation, par)
    ELSE _add_gate_nodes(d, operation, wires.list, par, libDescending)

-----------------------------------------------------------------------------
(* Contraction of the pre-measurement network *)

contract_fns == {"greedy", "branch", "optimal", "auto"}

RECURSIVE EdgeList(_)
EdgeList(nodeSeq) ==
    IF nodeSeq = <<>> THEN <<>> ELSE Edges(Head(nodeSeq)) \o EdgeList(Tail(nodeSeq))

IndexIn(s, x) == CHOOSE i \in DOMAIN s : s[i] = x

\* whether a contractor accepts the nodes with this output edge order: the
\* output edges are exactly the dangling edges of the nodes
Contractible(nodeSeq, cn, outEdges) ==
    /\ \A i, j \in DOMAIN outEdges : outEdges[i] = outEdges[j] => i = j
    /\ SeqToSet(outEdges) = {e \in SeqToSet(EdgeList(nodeSeq)) : Dangling(cn, e)}

\* the edge connected to e
Partner(cn, e) == CHOOSE f \in UNION cn : f # e /\ {e, f} \in cn

\* The nodes nodeSeq[i..] contracted into the tensor psi, whose axes are the
\* dangling edges `frontier` of the nodes contracted so far: a state tensor
\* joins as an outer product, an operator is contracted over the edges that
\* connect its input axes to the frontier, where its output axes take their place.
RECURSIVE ContractFrom(_, _, _, _, _)
ContractFrom(nodeSeq, cn, i, frontier, psi) ==
    IF i > Len(nodeSeq) THEN [frontier |-> frontier, psi |-> psi]
    ELSE LET nd == nodeSeq[i]
         IN  IF nd.tensor.kind = "vec"
             THEN ContractFrom(nodeSeq, cn, i + 1, frontier \o Edges(nd),
                               Kron2(psi, nd.tensor.data))
             ELSE LET k == Rank(nd) \div 2
                      pos == [j \in 1..k |->
                                IndexIn(frontier, Partner(cn, <<nd.id, k + j - 1>>)) - 1]
                  IN  ContractFrom(nodeSeq, cn, i + 1,
                          [p \in DOMAIN frontier |->
                              IF \E j \in 1..k : pos[j] + 1 = p
                              THEN <<nd.id, (CHOOSE j \in 1..k : pos[j] + 1 = p) - 1>>
                              ELSE frontier[p]],
                          ApplyTensor(psi, Len(frontier), nd.tensor, pos))

\* tn.contractors.<method>(nodes, output_edge_order): the tensor of the single
\* node left, as a flat vector with its axes in the order of outEdges.  The
\* result does not depend on the order of the pairwise contractions.
ContractNetwork(nodeSeq, cn, outEdges) ==
    LET c == ContractFrom(nodeSeq, cn, 1, <<>>, <<1>>)
        amp(b) == c.psi[FlatIndex([p \in DOMAIN c.frontier |->
                                      b[IndexIn(outEdges, c.frontier[p])]])]
    IN  FlatVec(Len(outEdges), amp)

Ket(tensor) == [name |-> "Ket", tensor |-> tensor]

\* a _contract_premeasurement_network that contracts the network whether or
\* not a contracted state is cached
_contract_premeasurement_network_anew(d) ==
    IF d._rep = "exact"
    THEN IF d._contraction_method \notin contract_fns THEN Raise(d, KeyError)
         ELSE IF "state" \notin DOMAIN d._nodes THEN Raise(d, KeyError)
         ELSE IF ~Contractible(d._nodes["state"], d.conn, d._free_wire_edges)
         THEN Raise(d, TnError)
         ELSE Ok([d EXCEPT !._contracted_state_node =
                               Some(Ket(ContractNetwork(d._nodes["state"], d.conn,
                                                        d._free_wire_edges))),
                           !.contractions = @ + 1],
                 <<>>)
    ELSE IF d.mps = None THEN Raise(d, AttributeError)
    ELSE Ok([d EXCEPT !._contracted_state_node = Some(Ket(d.mps[1].psi)),
                      !.contractions = @ + 1],
            <<>>)

_contract_premeasurement_network(d) ==
    IF d._contracted_state_node # None THEN Ok(d, <<>>)
    ELSE IF d._rep = "exact"
    THEN IF d._contraction_method \notin contract_fns THEN Raise(d, KeyError)
         ELSE IF "state" \notin DOMAIN d._nodes THEN Raise(d, KeyError)
         ELSE IF ~Contractible(d._nodes["state"], d.conn, d._free_wire_edges)
         THEN Raise(d, TnError)
         ELSE Ok([d EXCEPT !._contracted_state_node =
                               Some(Ket(ContractNetwork(d._nodes["state"], d.conn,
                                                        d._free_wire_edges))),
                           !.contractions = @ + 1],
                 <<>>)
    ELSE IF d._rep = "mps"
    THEN IF d.mps = None THEN Raise(d, AttributeError)
         ELSE Ok([d EXCEPT !._contracted_state_node = Some(Ket(d.mps[1].psi)),
                           !.contractions = @ + 1],
                 <<>>)
    ELSE Raise(d, AttributeError)    \* `ket` is unbound at line 566

_state(d) ==
    LET r == _contract_premeasurement_network(d)
    IN  IF r.exc # NoExc THEN r
        ELSE Ok(r.d, r.d._contracted_state_node[1].tensor)

-----------------------------------------------------------------------------
(* Measurements.  A request is the list of observables of the call, each with  *)
(* the wires it acts on: <<[o |-> name, w |-> wires], ...>>.                   *)

NearestNeighbourMeasurementError == Exc("NotImplementedError",
    "Multi-wire measurement only supported for nearest-neighbour wire pairs.")
ChoiceError == Exc("ValueError", "probabilities do not sum to 1")

Obs(o, w) == [o |-> o, w |-> w, p |-> <<>>]
\* an observable with the parameters p
ObsPar(o, w, p) == [o |-> o, w |-> w, p |-> p]

\* A_i ... A_1 |psi> for the first i of the operator nodes obs_nodes
RECURSIVE ApplyObservables(_, _, _, _)
ApplyObservables(psi, n, obs_nodes, i) ==
    IF i = 0 THEN psi
    ELSE ApplyTensor(ApplyObservables(psi, n, obs_nodes, i - 1), n,
                     obs_nodes[i].tensor, obs_nodes[i].wires)

\* an expectation value that leaves the observables out: <psi|psi>
Expectation_without_observables(psi, n, obs_nodes) ==
    SeqSum([j \in 1..pow2(n) |-> psi[j] * psi[j]])

\* <psi| A_1 ... A_k |psi> for the operator nodes obs_nodes on an n-wire state
Expectation(psi, n, obs_nodes) ==
    LET phi == ApplyObservables(psi, n, obs_nodes, Len(obs_nodes))
    IN  SeqSum([j \in 1..pow2(n) |-> psi[j] * phi[j]])

\* the imaginary part of <psi| A_1 ... A_k |psi> for a real state psi, in units
\* of 1e-10: the sum over i of the value with A_i replaced by its imaginary
\* part (products of two imaginary parts are below double precision)
ImagExpectation(psi, n, obs_nodes) ==
    SeqSum([i \in DOMAIN obs_nodes |->
        IF IsReal(obs_nodes[i].tensor) THEN 0
        ELSE Expectation(psi, n,
                 [obs_nodes EXCEPT ![i].tensor = ImagPart(@)])])

\* the complex scalar the closed network contracts to: <<real, imaginary>>
Scalar(psi, n, obs_nodes) ==
    <<Expectation(psi, n, obs_nodes), ImagExpectation(psi, n, obs_nodes)>>

\* whether two of the nodes act on the same wire
Overlapping(obs_nodes) ==
    \E i, j \in DOMAIN obs_nodes :
        /\ i < j
        /\ SeqToSet(obs_nodes[i].wires) \cap SeqToSet(obs_nodes[j].wires) # {}

_ev_exact(d, obs_nodes) ==
    With(_contract_premeasurement_network(d), LAMBDA r :
        IF r.exc # NoExc THEN r
        ELSE IF Overlapping(obs_nodes) THEN Raise(r.d, TnError)
        ELSE Ok(r.d, Scalar(r.d._contracted_state_node[1].tensor,
                            d.num_wires, obs_nodes)))

\* tn.connect(e1, e2) on the device: both edges must be dangling
_connect(d, e1, e2) ==
    IF Connected(d.conn, e1) \/ Connected(d.conn, e2) THEN Raise(d, TnError)
    ELSE Ok([d EXCEPT !.conn = Connect(@, e1, e2)], <<>>)

\* the loop of lines 518-520 over the wires of one observable, from position
\* idx (1-based) on: the bra copy of the chain node (a new node) and the chain
\* node itself are connected to the observable
RECURSIVE _connect_observable_mps(_, _, _)
_connect_observable_mps(d, obs_node, idx) ==
    IF idx > Len(obs_node.wires) THEN Ok(d, <<>>)
    ELSE With(_connect(NewNode(d), <<FreshId(d), 1>>, EdgeOf(obs_node, idx - 1)),
         LAMBDA r1 :
           IF r1.exc # NoExc THEN r1
           ELSE With(_connect(r1.d,
                              EdgeOf(obs_node, Len(obs_node.wires) + idx - 1),
                              <<d.mps[1].nodes[obs_node.wires[idx] + 1], 1>>),
                LAMBDA r2 :
                  IF r2.exc # NoExc THEN r2
                  ELSE _connect_observable_mps(r2.d, obs_node, idx + 1)))

\* the loop of lines 512-521, from its i-th observable on
RECURSIVE _connect_observables_mps(_, _, _)
_connect_observables_mps(d, obs_nodes, i) ==
    IF i > Len(obs_nodes) THEN Ok(d, <<>>)
    ELSE IF Len(obs_nodes[i].wires) = 2
              /\ Abs(obs_nodes[i].wires[1] - obs_nodes[i].wires[2]) > 1
    THEN Raise(d, NearestNeighbourMeasurementError)
    ELSE With(_connect_observable_mps(d, obs_nodes[i], 1), LAMBDA r :
             IF r.exc # NoExc THEN r
             ELSE _connect_observables_mps(r.d, obs_nodes, i + 1))

\* When the loop completes, the closed network is contracted to a scalar and
\* none of its connections outlives the call; when it raises, the connections
\* made so far stay on the chain and observable nodes.
\* an _ev_mps without the check of line 498
_ev_mps_any_width(d, obs_nodes) ==
    IF d.mps = None THEN Raise(d, AttributeError)
    ELSE IF Len(obs_nodes) = 1 /\ Len(obs_nodes[1].wires) = 1
    THEN Ok(d, Scalar(d.mps[1].psi, d.num_wires, obs_nodes))
    ELSE With(_connect_observables_mps(d, obs_nodes, 1), LAMBDA r :
             IF r.exc # NoExc THEN r
             ELSE Ok(d, Scalar(d.mps[1].psi, d.num_wires, obs_nodes)))

_ev_mps(d, obs_nodes) ==
    IF \E i \in DOMAIN obs_nodes : Len(obs_nodes[i].wires) > 2
    THEN Raise(d, NearestNeighbourMeasurementError)
    ELSE IF d.mps = None THEN Raise(d, AttributeError)
    ELSE IF Len(obs_nodes) = 1 /\ Len(obs_nodes[1].wires) = 1
    THEN Ok(d, Scalar(d.mps[1].psi, d.num_wires, obs_nodes))
    ELSE With(_connect_observables_mps(d, obs_nodes, 1), LAMBDA r :
             IF r.exc # NoExc THEN r
             ELSE Ok(d, Scalar(d.mps[1].psi, d.num_wires, obs_nodes)))

\* warnings.warn(..., RuntimeWarning): the warning is recorded with the
\* imaginary part it reports
_warn(d, imag) == [d EXCEPT !.warnings = Append(@, imag)]

\* an ev that also warns of an imaginary part equal to the tolerance
ev_warning_at_tolerance(d, obs_nodes) ==
    With(IF d._rep = "exact" THEN _ev_exact(d, obs_nodes) ELSE _ev_mps(d, obs_nodes),
         LAMBDA r :
           IF r.exc # NoExc THEN r
           ELSE IF Abs(r.val[2]) >= TOL THEN Ok(_warn(r.d, r.val[2]), <<r.val[1]>>)
           ELSE Ok(r.d, <<r.val[1]>>))

ev(d, obs_nodes) ==
    With(IF d._rep = "exact" THEN _ev_exact(d, obs_nodes) ELSE _ev_mps(d, obs_nodes),
         LAMBDA r :
           IF r.exc # NoExc THEN r
           ELSE IF Abs(r.val[2]) > TOL THEN Ok(_warn(r.d, r.val[2]), <<r.val[1]>>)
           ELSE Ok(r.d, <<r.val[1]>>))

\* a _create_nodes_from_tensors that creates the nodes without registering
\* them
_create_nodes_unregistered(d, tensors, req, key, i, nodes) ==
    [d |-> [d EXCEPT !.next_id = @ + Len(req)],
     nodes |-> [j \in DOMAIN req |-> Node(d.next_id + j - 1, req[j].o, req[j].w, tensors[j])]]

\* _create_nodes_from_tensors from the i-th tensor on: returns [d, nodes], with
\* the nodes created appended to `nodes`
RECURSIVE _create_nodes_from_tensors(_, _, _, _, _, _)
_create_nodes_from_tensors(d, tensors, req, key, i, nodes) ==
    IF i > Len(req) THEN [d |-> d, nodes |-> nodes]
    ELSE With(_add_node(d, tensors[i], req[i].w, req[i].o, key), LAMBDA r :
             _create_nodes_from_tensors(r.d, tensors, req, key, i + 1,
                                        Append(nodes, r.node)))

ObservableTensors(req, form) ==
    [i \in DOMAIN req |-> OpTensorOf(req[i].o, form, req[i].p, Len(req[i].w))]

expval(d, req) ==
    With(_create_nodes_from_tensors(d, ObservableTensors(req, ""), req,
                                    "observables", 1, <<>>),
         LAMBDA c : ev(c.d, c.nodes))

\* a variance that does not square the expectation value
_var_of_unsquared(d, obs_nodes, obs_nodes_for_squares) ==
    With(ev(d, obs_nodes_for_squares), LAMBDA r2 :
        IF r2.exc # NoExc THEN r2
        ELSE With(ev(r2.d, obs_nodes), LAMBDA r1 :
                 IF r1.exc # NoExc THEN r1
                 ELSE Ok(r1.d, <<r2.val[1] - r1.val[1]>>)))

\* line 388: ev(obs_nodes_for_squares) is evaluated first, then ev(obs_nodes)
_var_of(d, obs_nodes, obs_nodes_for_squares) ==
    With(ev(d, obs_nodes_for_squares), LAMBDA r2 :
        IF r2.exc # NoExc THEN r2
        ELSE With(ev(r2.d, obs_nodes), LAMBDA r1 :
                 IF r1.exc # NoExc THEN r1
                 ELSE Ok(r1.d, <<r2.val[1] - r1.val[1] * r1.val[1]>>)))

var(d, req) ==
    With(_create_nodes_from_tensors(d, ObservableTensors(req, ""), req,
                                    "observables", 1, <<>>),
         LAMBDA c1 :
           With(_create_nodes_from_tensors(c1.d, ObservableTensors(req, "sq"), req,
                                           "observables", 1, <<>>),
                LAMBDA c2 : _var_of(c2.d, c1.nodes, c2.nodes)))

\* itertools.product over the index ranges 1..dims[i]: the j-th combination in
\* lexicographic order (the last position varies fastest)
Combination(j, dims) ==
    [i \in DOMAIN dims |->
        (((j - 1) \div SeqProd(SubSeq(dims, i + 1, Len(dims)))) % dims[i]) + 1]

\* the number of projectors of each observable of the request
ProjectorCounts(req) == [i \in DOMAIN req |-> Len(Eigenvalues(req[i].o))]

\* the projector tensors of the j-th combination of projector_tensor_products
ProjectorTensors(req, j) ==
    [i \in DOMAIN req |->
        OpTensorOf(req[i].o, "proj", <<Combination(j, ProjectorCounts(req))[i]>>,
                   Len(req[i].w))]

\* the loop of lines 415-424, from the j-th projector combination on; probs are
\* the joint probabilities computed so far
RECURSIVE _joint_probabilities(_, _, _, _)
_joint_probabilities(d, req, j, probs) ==
    IF j > SeqProd(ProjectorCounts(req)) THEN Ok(d, probs)
    ELSE With(_create_nodes_from_tensors(d, ProjectorTensors(req, j),
                  [i \in DOMAIN req |-> Obs("UnnamedNode", req[i].w)],
                  "observables", 1, <<>>),
         LAMBDA c :
           With(ev(c.d, c.nodes), LAMBDA r :
               IF r.exc # NoExc THEN r
               ELSE _joint_probabilities(r.d, req, j + 1, Append(probs, r.val[1]))))

\* eigenvalue products listed with the first observable varying fastest
Outcomes_first_fastest(req) ==
    [j \in 1..SeqProd(ProjectorCounts(req)) |->
        SeqProd([i \in DOMAIN req |->
            Eigenvalues(req[i].o)[
                (((j - 1) \div SeqProd(SubSeq(ProjectorCounts(req), 1, i - 1)))
                    % ProjectorCounts(req)[i]) + 1]])]

\* the eigenvalue products of line 426, in the order of joint_outcomes
Outcomes(req) ==
    [j \in 1..SeqProd(ProjectorCounts(req)) |->
        SeqProd([i \in DOMAIN req |->
                    Eigenvalues(req[i].o)[Combination(j, ProjectorCounts(req))[i]]])]

\* whether np.random.choice accepts p as a probability vector
Probabilities(p) == (\A j \in DOMAIN p : p[j] >= 0) /\ SeqSum(p) = 1

\* np.random.choice(outcomes, shots, p): r is sample() up to the draw, holding
\* the joint probabilities; `draw` are the positions drawn
_choice(r, shotCount, outcomes, draw) ==
    IF r.exc # NoExc THEN r
    ELSE IF ~Probabilities(r.val) THEN Raise(r.d, ChoiceError)
    ELSE Ok(r.d, [i \in 1..shotCount |-> outcomes[draw[i]]])

sample(d, req, draw) ==
    _choice(_joint_probabilities(d, req, 1, <<>>), d.shots, Outcomes(req), draw)

\* draws that can land on any position, whatever its probability
_draws_any_position(r, shotCount) ==
    IF r.exc # NoExc \/ ~Probabilities(r.val) THEN {[i \in 1..shotCount |-> 1]}
    ELSE [1..shotCount -> DOMAIN r.val]

\* the draws np.random.choice can make from the result r of sample() up to the
\* draw: positions of positive probability
_draws(r, shotCount) ==
    IF r.exc # NoExc \/ ~Probabilities(r.val) THEN {[i \in 1..shotCount |-> 1]}
    ELSE {f \in [1..shotCount -> DOMAIN r.val] : \A i \in 1..shotCount : r.val[f[i]] > 0}

Draws(d, req) == _draws(_joint_probabilities(d, req, 1, <<>>), d.shots)

-----------------------------------------------------------------------------
(* The contraction_method setter *)

ContractionMethodError == Exc("ValueError", "The contraction method was not found.")

\* a setter that accepts every name
contraction_method_setter_unchecked(d, method) ==
    Ok([d EXCEPT !._contraction_method = method], <<>>)

contraction_method_setter(d, method) ==
    IF method \notin contract_fns THEN Raise(d, ContractionMethodError)
    ELSE Ok([d EXCEPT !._contraction_method = method], <<>>)

-----------------------------------------------------------------------------
(* Inputs of the public calls *)

Representations == {"exact", "mps"}

\* representation arguments a caller supplies: the supported ones and an
\* unsupported one
RepresentationArgs == Representations \cup {"bogus"}

\* contraction method names a caller supplies: supported ones and an
\* unsupported one
MethodNames == {"auto", "greedy", "bogus"}

Reverse(s) == [i \in DOMAIN s |-> s[Len(s) + 1 - i]]

\* wires arguments of a state preparation
PrepWires(n) ==
    {WiresNone, WiresList(<<>>), WiresList(range(n)), WiresList(<<0>>),
     WiresList(Reverse(range(n)))}

\* BasisState parameters: a valid bit string, and an empty, a too long, a
\* non-binary and a too short one
BasisStatePars(n) ==
    {Par(1, [i \in 1..n |-> i % 2]),
     Par(1, <<>>),
     Par(1, [i \in 1..(n + 1) |-> 0]),
     Par(1, [i \in 1..n |-> IF i = 1 THEN 2 ELSE 0]),
     Par(1, <<1>>)}

\* QubitStateVector parameters: the basis vector |0..01>, a vector of the wrong
\* length and a two-dimensional array
StateVectorPars(n) ==
    {Par(1, [i \in 1..pow2(n) |-> IF i = 2 THEN 1 ELSE 0]),
     Par(1, <<1, 0>>),
     Par(2, [i \in 1..pow2(n) |-> IF i = 1 THEN 1 ELSE 0])}

PrepPars(operation, n) ==
    IF operation = "BasisState" THEN BasisStatePars(n) ELSE StateVectorPars(n)

\* the parameter apply() accepts for the operation on n wires
ValidPar(operation, n) ==
    IF operation = "BasisState" THEN Par(1, [i \in 1..n |-> i % 2])
    ELSE Par(1, [i \in 1..pow2(n) |-> IF i = 2 THEN 1 ELSE 0])

\* the state preparation calls explored: every parameter on the list of all
\* wires, wires arguments of every kind with the valid parameter, and an
\* invalid parameter without wires
PrepArgs(n) ==
    UNION {{<<operation, WiresList(range(n)), par>> :
               par \in PrepPars(operation, n)} : operation \in StatePreps}
      \cup {<<"BasisState", wires, ValidPar("BasisState", n)>> : wires \in PrepWires(n)}
      \cup {<<"QubitStateVector", WiresNone, ValidPar("QubitStateVector", n)>>,
            <<"QubitStateVector", WiresList(<<0>>), ValidPar("QubitStateVector", n)>>,
            <<"BasisState", WiresNone, Par(1, <<>>)>>,
            <<"QubitStateVector", WiresList(<<>>), Par(1, <<1, 0>>)>>}

\* gates and the wires they are applied on
GateArgs(n) ==
    {<<"PauliX", <<n - 1>>>>, <<"CNOT", <<0, 1>>>>, <<"CNOT", <<1, 0>>>>}
      \cup (IF n >= 3 THEN {<<"CNOT", <<0, 2>>>>} ELSE {})
      \cup (IF n >= 3 THEN {<<"Toffoli", <<0, 1, 2>>>>} ELSE {})

GateOps == {"PauliX", "RY", "CNOT", "Toffoli"}

\* measurement requests: one observable, and two observables on two wires
Requests(n) ==
    {<<Obs("PauliZ", <<0>>)>>,
     <<Obs("PauliZ", <<0>>), Obs("PauliZ", <<1>>)>>}

SampleRequests(n) == {<<Obs("PauliZ", <<n - 1>>)>>}

\* multi-wire observables: on two neighbouring wires, and on a 3-wire device
\* on two wires that are not neighbours, alone and after a one-wire observable
WideRequests(n) ==
    {<<Obs("CZ", <<0, 1>>)>>}
      \cup (IF n >= 3
            THEN {<<Obs("CZ", <<0, 2>>)>>, <<Obs("PauliZ", <<1>>), Obs("CZ", <<0, 2>>)>>}
            ELSE {})

\* one observable on one wire, for every wire
LocalRequests(n) ==
    {<<Obs(o, <<w>>)>> : o \in {"PauliZ", "PauliX"}, w \in 0..(n - 1)}

\* the requests of expval() and var() on a prepared product state, with an
\* observable on three wires on a 3-wire device
MeasureRequests(n) ==
    Requests(n) \cup LocalRequests(n) \cup WideRequests(n)
      \cup (IF n >= 3 THEN {<<Obs("Toffoli", <<0, 1, 2>>)>>} ELSE {})

\* the requests of sample(): observables with a spectral decomposition, one
\* and two of them
MeasureSampleRequests(n) ==
    {<<Obs("PauliZ", <<w>>)>> : w \in 0..(n - 1)} \cup WideRequests(n)
      \cup {<<Obs("PauliZ", <<0>>), Obs("PauliZ", <<1>>)>>}

\* one-wire gates: PauliX on the last wire, and on the first wire the
\* rotations RY(pi) and RY(-pi), each the conjugate transpose of the other
LocalGateArgs(n) ==
    {<<"PauliX", <<n - 1>>, NoPar>>,
     <<"RY", <<0>>, Par(0, <<1>>)>>,
     <<"RY", <<0>>, Par(0, <<-1>>)>>}

\* the bit strings of length n
BitStrings(n) == [1..n -> {0, 1}]

ObsCount(d) == Len(NodesOf(d, "observables"))

GateCount(d) ==
    Cardinality({i \in DOMAIN NodesOf(d, "state") : NodesOf(d, "state")[i].name \in GateOps})

\* whether a further gate or measurement is explored
Explored(d) == GateCount(d) + ObsCount(d) < MaxNodes

-----------------------------------------------------------------------------
(* The public calls *)

NoReq == <<>>

MkCall(op, name, wires, par, req, method) ==
    [op |-> op, name |-> name, wires |-> wires, par |-> par, req |-> req,
     method |-> method]

\* the device as a call finds it: whether a contracted state is cached, and
\* whether gates or observables were added since the last state preparation or
\* reset
Before ==
    [cached |-> _contracted_state_node # None,
     touched |-> GateCount(Dev) + ObsCount(Dev) > 0]

\* whether construction returned a device: methods are called on a device
Constructed == ~(call.op = "__init__" /\ raised # NoExc)

\* the device after a call that ended with result r
Commit(r, c) ==
    /\ Constructed
    /\ num_wires' = r.d.num_wires
    /\ shots' = r.d.shots
    /\ _rep' = r.d._rep
    /\ _contraction_method' = r.d._contraction_method
    /\ _nodes' = r.d._nodes
    /\ _free_wire_edges' = r.d._free_wire_edges
    /\ mps' = r.d.mps
    /\ _contracted_state_node' = r.d._contracted_state_node
    /\ conn' = r.d.conn
    /\ next_id' = r.d.next_id
    /\ contractions' = r.d.contractions
    /\ raised' = r.exc
    /\ ret' = r.val
    /\ warnings' = r.d.warnings
    /\ call' = c
    /\ pre' = Before

RepresentationError == Exc("ValueError",
    "Invalid representation. Must be one of 'exact' or 'mps'.")

\* the object before __init__ has assigned anything but what Device.__init__
\* assigns
Unset == ""
NewObject(wires, shotCount) ==
    [num_wires |-> wires, shots |-> shotCount, _rep |-> Unset,
     _contraction_method |-> Unset, _nodes |-> EmptyDict,
     _free_wire_edges |-> <<>>, mps |-> None,
     _contracted_state_node |-> None, conn |-> {}, next_id |-> 0,
     contractions |-> 0, warnings |-> <<>>]

\* an __init__ that accepts every representation
__init__any_representation(wires, shotCount, representation, contraction_method) ==
    reset([NewObject(wires, shotCount) EXCEPT
               !._rep = representation,
               !._contraction_method = contraction_method])

__init__(wires, shotCount, representation, contraction_method) ==
    IF representation \notin {"exact", "mps"}
    THEN Raise(NewObject(wires, shotCount), RepresentationError)
    ELSE reset([NewObject(wires, shotCount) EXCEPT
                    !._rep = representation,
                    !._contraction_method = contraction_method])

\* DefaultTensor(wires, shots, representation, contraction_method); the call
\* records the representation argument as its name
Init ==
    \E n \in WireCounts, s \in {Shots}, representation \in RepresentationArgs,
       method \in MethodNames :
        LET r == __init__(n, s, representation, method)
        IN  /\ num_wires = r.d.num_wires
            /\ shots = r.d.shots
            /\ _rep = r.d._rep
            /\ _contraction_method = r.d._contraction_method
            /\ _nodes = r.d._nodes
            /\ _free_wire_edges = r.d._free_wire_edges
            /\ mps = r.d.mps
            /\ _contracted_state_node = r.d._contracted_state_node
            /\ conn = r.d.conn
            /\ next_id = r.d.next_id
            /\ contractions = r.d.contractions
            /\ raised = r.exc
            /\ ret = <<>>
            /\ warnings = r.d.warnings
            /\ call = MkCall("__init__", representation, WiresNone, NoPar, NoReq,
                             method)
            /\ pre = [cached |-> FALSE, touched |-> FALSE]

Reset ==
    Commit(reset(Dev), MkCall("reset", "", WiresNone, NoPar, NoReq, ""))

ApplyStatePrep ==
    \E a \in PrepArgs(num_wires) :
        Commit(apply(Dev, a[1], a[2], a[3], TRUE),
               MkCall("apply", a[1], a[2], a[3], NoReq, ""))

\* the answers the library may give to this gate: both for a two-site gate on
\* descending sites of a chain, one otherwise
LibraryAnswers(wires) ==
    IF _rep = "mps" /\ Len(wires) = 2 /\ wires[2] < wires[1] THEN BOOLEAN ELSE {TRUE}

ApplyGate ==
    /\ Explored(Dev)
    /\ \E g \in GateArgs(num_wires) :
           \E libDescending \in LibraryAnswers(g[2]) :
               Commit(apply(Dev, g[1], WiresList(g[2]), NoPar, libDescending),
                      MkCall("apply", g[1], WiresList(g[2]), NoPar, NoReq, ""))

State ==
    Commit(_state(Dev), MkCall("_state", "", WiresNone, NoPar, NoReq, ""))

Expval ==
    /\ Explored(Dev)
    /\ \E req \in Requests(num_wires) :
           Commit(expval(Dev, req),
                  MkCall("expval", "", WiresNone, NoPar, req, ""))

Var ==
    /\ Explored(Dev)
    /\ \E req \in SampleRequests(num_wires) :
           Commit(var(Dev, req),
                  MkCall("var", "", WiresNone, NoPar, req, ""))

Sample ==
    /\ Explored(Dev)
    /\ \E req \in SampleRequests(num_wires) :
           \E draw \in Draws(Dev, req) :
               Commit(sample(Dev, req, draw),
                      MkCall("sample", "", WiresNone, NoPar, req, ""))

SetContractionMethod ==
    \E method \in MethodNames :
        Commit(contraction_method_setter(Dev, method),
               MkCall("contraction_method", "", WiresNone, NoPar, NoReq, method))

Next ==
    \/ Reset
    \/ ApplyStatePrep
    \/ ApplyGate
    \/ State
    \/ Expval
    \/ Var
    \/ Sample
    \/ SetContractionMethod

Spec == Init /\ [][Next]_vars

-----------------------------------------------------------------------------
(* Measurements of prepared basis states: a device with the default          *)
(* contraction method, basis states of every bit string, and every request.  *)

InitDefault ==
    Init /\ _rep \in Representations /\ _contraction_method = "auto"

PrepareBasisState ==
    \E b \in BitStrings(num_wires) :
        Commit(apply(Dev, "BasisState", WiresList(range(num_wires)), Par(1, b), TRUE),
               MkCall("apply", "BasisState", WiresList(range(num_wires)), Par(1, b),
                      NoReq, ""))

MeasureExpval ==
    /\ Explored(Dev)
    /\ \E req \in MeasureRequests(num_wires) :
           Commit(expval(Dev, req),
                  MkCall("expval", "", WiresNone, NoPar, req, ""))

MeasureVar ==
    /\ Explored(Dev)
    /\ \E req \in MeasureRequests(num_wires) :
           Commit(var(Dev, req),
                  MkCall("var", "", WiresNone, NoPar, req, ""))

MeasureSample ==
    /\ Explored(Dev)
    /\ \E req \in MeasureSampleRequests(num_wires) :
           \E draw \in Draws(Dev, req) :
               Commit(sample(Dev, req, draw),
                      MkCall("sample", "", WiresNone, NoPar, req, ""))

NextMeasure ==
    \/ Reset
    \/ PrepareBasisState
    \/ State
    \/ MeasureExpval
    \/ MeasureVar
    \/ MeasureSample

SpecMeasure == InitDefault /\ [][NextMeasure]_vars

-----------------------------------------------------------------------------
(* Measurements of observables whose matrix is not real: the phase shift    *)
(* diag(1, exp(i phi)) for phi = 0, 1e-10 and 2e-10, alone and after a       *)
(* Pauli observable.                                                         *)

Phases == {0, 1, 2}

PhaseRequests(n) ==
    {<<ObsPar("PhaseShift", <<n - 1>>, <<k>>)>> : k \in Phases}
      \cup {<<Obs("PauliZ", <<0>>), ObsPar("PhaseShift", <<n - 1>>, <<2>>)>>}

PhaseExpval ==
    /\ Explored(Dev)
    /\ \E req \in PhaseRequests(num_wires) :
           Commit(expval(Dev, req),
                  MkCall("expval", "", WiresNone, NoPar, req, ""))

PhaseVar ==
    /\ Explored(Dev)
    /\ \E req \in PhaseRequests(num_wires) :
           Commit(var(Dev, req),
                  MkCall("var", "", WiresNone, NoPar, req, ""))

NextPhase ==
    \/ Reset
    \/ PrepareBasisState
    \/ PhaseExpval
    \/ PhaseVar
    \/ MeasureSample

SpecPhase == InitDefault /\ [][NextPhase]_vars

-----------------------------------------------------------------------------
(* The state-preparation step called on an empty network, with the state    *)
(* factorized in every way: one tensor per wire with the wires listed in     *)
(* every order, and tensors on several wires; gates on the prepared network. *)

\* the orders the wires 0..n-1 can be listed in
Perms(n) ==
    {q \in [1..n -> 0..(n - 1)] : \A i, j \in 1..n : q[i] = q[j] => i = j}

BasisVec(bit) == IF bit = 0 THEN _zero_state ELSE one_vec

\* one basis vector per wire, the wires listed in the order q
SingleWireFactorizations(n) ==
    {[tensors |-> [i \in 1..n |-> BasisVec(b[q[i] + 1])],
      wires |-> [i \in 1..n |-> <<q[i]>>],
      names |-> [i \in 1..n |-> "Prepared"]] : q \in Perms(n), b \in BitStrings(n)}

\* the basis state of k wires with the last of them in state 1
GroupTensor(k) == VecTensor([i \in 1..pow2(k) |-> IF i = 2 THEN 1 ELSE 0], k)

\* wire groups with a group of several wires: all wires in one group, in
\* ascending and in descending order, and on 3 wires a pair with a single wire
WireGroups(n) ==
    {<<range(n)>>, <<Reverse(range(n))>>}
      \cup (IF n >= 3
            THEN {<<<<0>>, <<1, 2>>>>, <<<<1, 2>>, <<0>>>>, <<<<0, 2>>, <<1>>>>}
            ELSE {})

MultiWireFactorizations(n) ==
    {[tensors |-> [i \in DOMAIN g |-> GroupTensor(Len(g[i]))],
      wires |-> g,
      names |-> [i \in DOMAIN g |-> "Prepared"]] : g \in WireGroups(n)}

Factorizations(n) == SingleWireFactorizations(n) \cup MultiWireFactorizations(n)

ClearNetworkData ==
    Commit(Ok(_clear_network_data(Dev), <<>>),
           MkCall("_clear_network_data", "", WiresNone, NoPar, NoReq, ""))

\* explored on an empty network; the call records the wire groups
AddInitialStateNodes ==
    /\ "state" \notin DOMAIN _nodes
    /\ \E f \in Factorizations(num_wires) :
           Commit(_add_initial_state_nodes(Dev, f.tensors, f.wires, f.names),
                  MkCall("_add_initial_state_nodes", "", WiresList(f.wires), NoPar,
                         NoReq, ""))

NextNodes ==
    \/ Reset
    \/ ClearNetworkData
    \/ AddInitialStateNodes
    \/ ApplyGate
    \/ State

SpecNodes == InitDefault /\ [][NextNodes]_vars

-----------------------------------------------------------------------------
(* Measurements in a row: a measurement is explored while the registry      *)
(* holds fewer than MaxObservables observable nodes.                         *)

RegistryRequests(n) == Requests(n) \cup {<<Obs("CZ", <<0, n - 1>>)>>}

RegistryExpval ==
    /\ ObsCount(Dev) < MaxObservables
    /\ \E req \in RegistryRequests(num_wires) :
           Commit(expval(Dev, req),
                  MkCall("expval", "", WiresNone, NoPar, req, ""))

RegistryVar ==
    /\ ObsCount(Dev) < MaxObservables
    /\ \E req \in RegistryRequests(num_wires) :
           Commit(var(Dev, req),
                  MkCall("var", "", WiresNone, NoPar, req, ""))

RegistrySample ==
    /\ ObsCount(Dev) < MaxObservables
    /\ \E req \in RegistryRequests(num_wires) :
           \E draw \in Draws(Dev, req) :
               Commit(sample(Dev, req, draw),
                      MkCall("sample", "", WiresNone, NoPar, req, ""))

NextRegistry ==
    \/ Reset
    \/ ApplyStatePrep
    \/ State
    \/ RegistryExpval
    \/ RegistryVar
    \/ RegistrySample

SpecRegistry == InitDefault /\ [][NextRegistry]_vars

-----------------------------------------------------------------------------
(* Circuits of one-wire gates on prepared basis states *)

ApplyLocalGate ==
    /\ GateCount(Dev) < MaxGates
    /\ \E g \in LocalGateArgs(num_wires) :
           Commit(apply(Dev, g[1], WiresList(g[2]), g[3], TRUE),
                  MkCall("apply", g[1], WiresList(g[2]), g[3], NoReq, ""))

NextGates ==
    \/ Reset
    \/ PrepareBasisState
    \/ ApplyLocalGate
    \/ State
    \/ Expval

SpecGates == InitDefault /\ [][NextGates]_vars

-----------------------------------------------------------------------------
(* Properties of the device *)

ReadOps == {"_state", "expval", "var", "sample"}

IsStatePrep(c) == c.op = "apply" /\ c.name \in StatePreps
IsGate(c) == c.op = "apply" /\ c.name \in GateOps

\* the state the network of the device represents: the contraction of its
\* 'state' nodes, or the state of the chain
PremeasurementState ==
    IF _rep = "exact"
    THEN ContractNetwork(_nodes["state"], conn, _free_wire_edges)
    ELSE mps[1].psi

\* the state a state preparation with the parameter par prepares
PreparedState(operation, par) ==
    IF operation = "QubitStateVector" THEN par.data
    ELSE Kron([w \in DOMAIN par.data |->
                  IF par.data[w] = 0 THEN <<1, 0>> ELSE <<0, 1>>])

\* C1: a gate applied while a contracted state is cached empties the cache, and
\* every state() call returns the state of the network as it is, with every
\* gate applied since the last state preparation or reset.
C1_GateInvalidatesCache ==
    /\ (IsGate(call) /\ raised = NoExc /\ pre.cached)
          => _contracted_state_node = None
    /\ (call.op = "_state" /\ raised = NoExc) => ret = PremeasurementState

\* C2: a state preparation that raises leaves the node registry, the wire edge
\* table, the chain and the contracted-state cache as they were.
C2_RejectedPrepLeavesNetwork ==
    [][(IsStatePrep(call') /\ raised' # NoExc)
          => UNCHANGED <<_nodes, _free_wire_edges, mps, _contracted_state_node>>]_vars

\* C3: on a chain, a two-wire gate on wires that are not neighbours raises
\* NotImplementedError and leaves the node lists, the chain, the wire edge
\* table and the cache as they were.
C3_NonAdjacentGateLeavesNetwork ==
    [][(_rep = "mps" /\ IsGate(call') /\ Len(call'.wires.list) = 2
            /\ Abs(call'.wires.list[2] - call'.wires.list[1]) > 1)
          => /\ raised' = NearestNeighbourGateError
             /\ UNCHANGED <<_nodes, _free_wire_edges, mps, _contracted_state_node>>]_vars

\* the network of a freshly constructed device: one 'ZeroState' node per wire
\* in the 'state' category and nothing else, one table entry per wire on the
\* dangling physical edge of that wire's node, and no contracted state
FreshNetwork ==
    /\ DOMAIN _nodes = {"state"}
    /\ Len(_nodes["state"]) = num_wires
    /\ \A i \in 1..num_wires :
          /\ _nodes["state"][i].id = i - 1
          /\ _nodes["state"][i].name = "ZeroState"
          /\ _nodes["state"][i].wires = <<i - 1>>
          /\ _nodes["state"][i].tensor.data = <<1, 0>>
    /\ next_id = num_wires
    /\ _free_wire_edges =
          [i \in 1..num_wires |-> <<i - 1, IF _rep = "mps" THEN 1 ELSE 0>>]
    /\ conn = {}
    /\ mps = IF _rep = "mps"
             THEN Some(FiniteMPS([i \in 1..num_wires |-> i - 1],
                                 [j \in 1..pow2(num_wires) |-> IF j = 1 THEN 1 ELSE 0]))
             ELSE None
    /\ _contracted_state_node = None
    /\ contractions = 0

\* C4: reset() succeeds in every state and leaves the network of a freshly
\* constructed device, which is the network construction leaves.
C4_ResetIsFresh ==
    /\ call.op = "reset" => (raised = NoExc /\ FreshNetwork)
    /\ (call.op = "__init__" /\ raised = NoExc) => FreshNetwork

\* reset() called on a device with a cached contraction and gate or observable
\* nodes
C4_Witness ==
    call.op = "reset" /\ pre.cached /\ pre.touched /\ FreshNetwork

\* C5: state(), expval(), var() and sample() leave at most one contraction
\* since the last state preparation or reset; when a contracted state is
\* cached they neither contract again nor change the cache, and state()
\* returns the cached tensor.
C5_ReadsContractOnce ==
    [][call'.op \in ReadOps
          => /\ contractions' <= 1
             /\ _contracted_state_node # None
                   => /\ _contracted_state_node' = _contracted_state_node
                      /\ contractions' = contractions
                      /\ call'.op = "_state"
                            => /\ raised' = NoExc
                               /\ ret' = _contracted_state_node[1].tensor]_vars

\* state() called with a contracted state cached
C5_Witness ==
    /\ call.op = "_state" /\ pre.cached /\ raised = NoExc
    /\ contractions = 1
    /\ ret = _contracted_state_node[1].tensor

\* C6: between public calls the wire edge table has one entry per wire, each a
\* dangling edge.
C6_WireEdgeTable ==
    /\ Len(_free_wire_edges) = num_wires
    /\ \A i \in DOMAIN _free_wire_edges : Dangling(conn, _free_wire_edges[i])

\* the wires arguments the check of apply() rejects for a state preparation
WiresRejected(wires) ==
    ~wires.none /\ wires.list # <<>> /\ wires.list # range(num_wires)

\* C7 as stated: a state preparation raises InvalidWires for every wires
\* argument other than the list of all wires in increasing order.
C7_OnlyAllWires ==
    IsStatePrep(call)
        => (raised = InvalidWires <=> call.wires # WiresList(range(num_wires)))

\* C7: a state preparation raises InvalidWires exactly for the wires arguments
\* that are a non-empty list other than the list of all wires in increasing
\* order; with None, the empty list or the list of all wires, a valid
\* parameter prepares the state.
C7_WiresCheck ==
    IsStatePrep(call)
        => /\ raised = InvalidWires <=> WiresRejected(call.wires)
           /\ (~WiresRejected(call.wires)
                  /\ call.par = ValidPar(call.name, num_wires))
                 => /\ raised = NoExc
                    /\ PremeasurementState = PreparedState(call.name, call.par)

\* a state preparation on the reversed list of wires, rejected
C7_Witness ==
    /\ IsStatePrep(call)
    /\ call.wires = WiresList(Reverse(range(num_wires)))
    /\ raised = InvalidWires

\* the network right after the state preparation of the last call: only the
\* nodes it created, all in the 'state' category, no connection, no contracted
\* state, and a wire edge table on edges of these nodes
PreparedNetwork ==
    /\ DOMAIN _nodes = {"state"}
    /\ Len(_nodes["state"]) =
          (IF call.name = "QubitStateVector" /\ _rep = "exact" THEN 1 ELSE num_wires)
    /\ \A i \in DOMAIN _nodes["state"] :
          /\ _nodes["state"][i].id = i - 1
          /\ _nodes["state"][i].name = call.name
    /\ next_id = Len(_nodes["state"])
    /\ conn = {}
    /\ _contracted_state_node = None
    /\ contractions = 0
    /\ Len(_free_wire_edges) = num_wires
    /\ \A i \in DOMAIN _free_wire_edges :
          \E j \in DOMAIN _nodes["state"] :
              _free_wire_edges[i] \in SeqToSet(Edges(_nodes["state"][j]))
    /\ PremeasurementState = PreparedState(call.name, call.par)

\* C8: after a successful state preparation the network holds what this
\* preparation created and nothing of the network before it.
C8_PrepDiscardsNetwork ==
    (IsStatePrep(call) /\ raised = NoExc) => PreparedNetwork

\* a state preparation on a device with a cached contraction and gate or
\* observable nodes
C8_Witness ==
    IsStatePrep(call) /\ raised = NoExc /\ pre.cached /\ pre.touched

\* C9: the setter raises for a name outside contract_fns and leaves the
\* configured method; it configures a name of contract_fns.
C9_SetterChecksName ==
    [][call'.op = "contraction_method"
          => IF call'.method \in contract_fns
             THEN raised' = NoExc /\ _contraction_method' = call'.method
             ELSE /\ raised' = ContractionMethodError
                  /\ _contraction_method' = _contraction_method]_vars

\* an unsupported name assigned to a device configured with a supported one
C9_Witness ==
    /\ call.op = "contraction_method"
    /\ call.method \notin contract_fns
    /\ raised = ContractionMethodError
    /\ _contraction_method \in contract_fns

\* the object a failed construction leaves: no node, no table entry, no chain
UnbuiltNetwork ==
    /\ _nodes = EmptyDict
    /\ _free_wire_edges = <<>>
    /\ mps = None
    /\ _contracted_state_node = None
    /\ next_id = 0

\* C11: construction raises the representation ValueError, with no network
\* built, exactly when the representation is neither 'exact' nor 'mps';
\* otherwise it succeeds and leaves the all-zero state of a reset device.
C11_RepresentationChecked ==
    call.op = "__init__"
        => IF call.name \in {"exact", "mps"}
           THEN /\ raised = NoExc
                /\ _rep = call.name
                /\ FreshNetwork
                /\ PremeasurementState =
                      [j \in 1..pow2(num_wires) |-> IF j = 1 THEN 1 ELSE 0]
           ELSE raised = RepresentationError /\ UnbuiltNetwork

\* a construction with an unsupported representation
C11_Witness ==
    /\ call.op = "__init__"
    /\ call.name \notin {"exact", "mps"}
    /\ raised = RepresentationError

\* C10: the configured contraction method of a device is always one of
\* contract_fns.
C10_MethodSupported == Constructed => _contraction_method \in contract_fns

AllWires == WiresList(range(num_wires))

\* the BasisState parameters the check of line 289 rejects
BasisStateRejected(par) ==
    Len(par.data) = 0 \/ Len(par.data) > num_wires
        \/ ~(SeqToSet(par.data) \subseteq {0, 1})

\* C12: a BasisState preparation on all wires raises the BasisState ValueError
\* exactly for an empty, a too long or a non-binary parameter, and with every
\* other parameter it succeeds and leaves one node and one table entry per
\* wire.
C12_BasisStateChecked ==
    (call.op = "apply" /\ call.name = "BasisState" /\ call.wires = AllWires)
        => IF BasisStateRejected(call.par)
           THEN raised = BasisStateError
           ELSE /\ raised = NoExc
                /\ Len(NodesOf(Dev, "state")) = num_wires
                /\ Len(_free_wire_edges) = num_wires

\* C13: a QubitStateVector preparation on all wires raises the state vector
\* ValueError exactly when the parameter is not one-dimensional of length
\* 2**num_wires; otherwise it prepares the state of the parameter, a tensor of
\* num_wires axes of size 2.
C13_StateVectorChecked ==
    (call.op = "apply" /\ call.name = "QubitStateVector" /\ call.wires = AllWires)
        => IF call.par.ndim = 1 /\ Len(call.par.data) = pow2(num_wires)
           THEN /\ raised = NoExc
                /\ _rep = "exact" =>
                      /\ Len(_nodes["state"]) = 1
                      /\ _nodes["state"][1].tensor.shape = [i \in 1..num_wires |-> 2]
                /\ _rep = "mps" =>
                      /\ Len(_nodes["state"]) = num_wires
                      /\ \A i \in 1..num_wires : _nodes["state"][i].tensor.shape[2] = 2
                /\ Len(PremeasurementState) = pow2(num_wires)
                /\ PremeasurementState = call.par.data
           ELSE raised = StateVectorError

\* a two-dimensional array of 2**num_wires entries, rejected
C13_Witness ==
    /\ call.op = "apply" /\ call.name = "QubitStateVector" /\ call.wires = AllWires
    /\ call.par.ndim = 2 /\ Len(call.par.data) = pow2(num_wires)
    /\ raised = StateVectorError

\* the wires the chain takes a gate or an observable on: one wire, or two
\* neighbouring wires in either order
NearestNeighbour(wires) ==
    Len(wires) = 1 \/ (Len(wires) = 2 /\ Abs(wires[2] - wires[1]) = 1)

\* C14: a gate applied to a chain is accepted when it acts on one wire or on
\* two neighbouring wires in either order, and raises NotImplementedError
\* otherwise; in exact mode no gate raises NotImplementedError.
C14_NearestNeighbourGates ==
    [][(IsGate(call') /\ (_rep = "mps" => mps # None))
          => IF _rep = "mps"
             THEN IF NearestNeighbour(call'.wires.list)
                  THEN raised' = NoExc
                  ELSE raised' = NearestNeighbourGateError
             ELSE raised' # NearestNeighbourGateError]_vars

MeasurementOps == {"expval", "var", "sample"}

\* C15: on a chain, expval(), var() and sample() raise NotImplementedError when
\* one of the observables of the request acts on three or more wires or on two
\* wires that are not neighbours; otherwise they do not raise it, and on a
\* chain without gate or observable nodes they succeed.
C15_NearestNeighbourMeasurements ==
    (_rep = "mps" /\ mps # None /\ call.op \in MeasurementOps)
        => IF \A i \in DOMAIN call.req : NearestNeighbour(call.req[i].w)
           THEN /\ raised # NearestNeighbourMeasurementError
                /\ ~pre.touched => raised = NoExc
           ELSE raised = NearestNeighbourMeasurementError

\* a request rejected for the second of its observables
C15_Witness ==
    /\ _rep = "mps" /\ mps # None /\ call.op \in MeasurementOps
    /\ Len(call.req) = 2
    /\ NearestNeighbour(call.req[1].w) /\ ~NearestNeighbour(call.req[2].w)
    /\ raised = NearestNeighbourMeasurementError

\* the tensor with 1 at the index b and 0 elsewhere, flattened
OneHot(b) == [j \in 1..pow2(Len(b)) |-> IF j = FlatIndex(b) THEN 1 ELSE 0]

\* the bit each node of a prepared basis state stands for
PreparedBits ==
    [i \in DOMAIN _nodes["state"] |->
        IF _nodes["state"][i].tensor.data = <<1, 0>> THEN 0 ELSE 1]

\* C16: a BasisState preparation with a bit string b on all wires leaves one
\* node per wire holding the basis vector of its bit, and state() on the
\* prepared network returns the tensor with 1 at index b and 0 elsewhere.
C16_BasisStatePrepared ==
    /\ (call.op = "apply" /\ call.name = "BasisState" /\ raised = NoExc)
          => /\ Len(_nodes["state"]) = num_wires
             /\ PreparedBits = call.par.data
             /\ \A i \in 1..num_wires :
                   /\ _nodes["state"][i].wires = <<i - 1>>
                   /\ _nodes["state"][i].tensor.data \in {<<1, 0>>, <<0, 1>>}
    /\ (call.op = "_state" /\ raised = NoExc /\ "state" \in DOMAIN _nodes
           /\ \A i \in DOMAIN NodesOf(Dev, "state") :
                 _nodes["state"][i].name = "BasisState")
          => ret = OneHot(PreparedBits)

\* state() on the basis state 1 0 .. prepared on a device that held a cached
\* contraction and a gate or observable node
C16_Witness ==
    /\ call.op = "_state" /\ raised = NoExc /\ "state" \in DOMAIN _nodes
    /\ \A i \in DOMAIN NodesOf(Dev, "state") : _nodes["state"][i].name = "BasisState"
    /\ PreparedBits = [i \in 1..num_wires |-> IF i = 1 THEN 1 ELSE 0]
    /\ ret = OneHot(PreparedBits)

\* The state of the circuit formed by the first i of the nodes, on n wires:
\* the prepared one-wire states in the order of their wires, with the gates
\* applied in the order of the calls.
RECURSIVE CircuitState(_, _, _)
CircuitState(nodeSeq, n, i) ==
    IF i = 0 THEN <<1>>
    ELSE IF nodeSeq[i].tensor.kind = "vec"
    THEN Kron2(CircuitState(nodeSeq, n, i - 1), nodeSeq[i].tensor.data)
    ELSE ApplyTensor(CircuitState(nodeSeq, n, i - 1), n, nodeSeq[i].tensor,
                     nodeSeq[i].wires)

\* whether the gate of node b is the conjugate transpose of the gate of node
\* a on the same wire
InversePair(a, b) ==
    /\ a.tensor.kind = "op" /\ b.tensor.kind = "op"
    /\ Len(a.wires) = 1 /\ a.wires = b.wires
    /\ \/ a.name = "PauliX" /\ b.name = "PauliX"
       \/ a.name = "RY" /\ b.name = "RY" /\ a.tensor.data[1] = -b.tensor.data[1]

\* state() called when the last two gates are a gate and its conjugate
\* transpose on one wire
AfterInversePair ==
    /\ call.op = "_state" /\ raised = NoExc
    /\ Len(NodesOf(Dev, "state")) >= 2
    /\ InversePair(_nodes["state"][Len(_nodes["state"]) - 1],
                   _nodes["state"][Len(_nodes["state"])])

\* C17: after a one-wire gate and then its conjugate transpose on the same
\* wire, state() returns the state of the circuit before the two gates.
C17_GateThenInverse ==
    AfterInversePair
        => ret = CircuitState(_nodes["state"], num_wires, Len(_nodes["state"]) - 2)

\* expval() of one observable on one wire, on a prepared product state of
\* basis vectors
LocalExpval ==
    /\ call.op = "expval"
    /\ Len(call.req) = 1 /\ Len(call.req[1].w) = 1
    /\ "state" \in DOMAIN _nodes
    /\ Len(_nodes["state"]) = num_wires
    /\ \A i \in 1..num_wires : _nodes["state"][i].tensor.kind = "vec"

\* <b| A |b> for the observable of the request on the bit of its wire
LocalValue ==
    MatrixEntry(call.req[1].o,
                <<PreparedBits[call.req[1].w[1] + 1]>>,
                <<PreparedBits[call.req[1].w[1] + 1]>>)

ObservableEntry(ob, squared, out, inn) ==
    IF ~squared THEN OperatorEntry(ob.o, ob.p, out, inn)
    ELSE SeqSum([m \in 1..pow2(Len(out)) |->
             OperatorEntry(ob.o, ob.p, out, BitsOf(m, Len(out)))
               * OperatorEntry(ob.o, ob.p, BitsOf(m, Len(out)), inn)])

\* the wires a request measures
RequestWires(req) == UNION {SeqToSet(req[i].w) : i \in DOMAIN req}

\* entry (x, y) of the tensor product of the observables of a request on
\* disjoint wires, the identity on the wires the request leaves out
RequestEntry(req, squared, x, y) ==
    IF \E i \in DOMAIN x : (i - 1) \notin RequestWires(req) /\ x[i] # y[i]
    THEN 0
    ELSE SeqProd([k \in DOMAIN req |->
             ObservableEntry(req[k], squared, Pick(x, req[k].w), Pick(y, req[k].w))])

\* <psi| A |psi> as the double sum over the entries of A
RequestExpectation(psi, n, req, squared) ==
    SeqSum([i \in 1..pow2(n) |->
        IF psi[i] = 0 THEN 0
        ELSE SeqSum([j \in 1..pow2(n) |->
                 IF psi[j] = 0 THEN 0
                 ELSE psi[i] * psi[j]
                        * RequestEntry(req, squared, BitsOf(i, n), BitsOf(j, n))])])

\* C19: a var() call that returns gives the expectation of A.A minus the
\* square of the expectation of A, both on the pre-measurement state of the
\* device.
C19_VarianceIdentity ==
    (call.op = "var" /\ raised = NoExc) =>
        ret = <<RequestExpectation(PremeasurementState, num_wires, call.req, TRUE)
                - RequestExpectation(PremeasurementState, num_wires, call.req, FALSE)
                    * RequestExpectation(PremeasurementState, num_wires, call.req, FALSE)>>

\* a variance that is not zero
C19_Witness ==
    /\ call.op = "var" /\ raised = NoExc
    /\ ret = <<1>>
    /\ RequestExpectation(PremeasurementState, num_wires, call.req, FALSE) = 0

\* the choices of one eigenvalue for each observable of a request, by index
EigenChoices(req) ==
    {e \in [DOMAIN req -> 1..4] :
        \A k \in DOMAIN req : e[k] <= Len(Eigenvalues(req[k].o))}

\* the product of the chosen eigenvalues
EigenProduct(req, e) == SeqProd([k \in DOMAIN req |-> Eigenvalues(req[k].o)[e[k]]])

\* entry (x, y) of the tensor product of the chosen projectors, the identity
\* on the wires the request leaves out
ProjectorProductEntry(req, e, x, y) ==
    IF \E i \in DOMAIN x : (i - 1) \notin RequestWires(req) /\ x[i] # y[i]
    THEN 0
    ELSE SeqProd([k \in DOMAIN req |->
             ProjectorEntry(req[k].o, e[k], Pick(x, req[k].w), Pick(y, req[k].w))])

\* the joint probability <psi| P_1 ... P_k |psi> of the chosen eigenvalues
JointProbability(psi, n, req, e) ==
    SeqSum([i \in 1..pow2(n) |->
        IF psi[i] = 0 THEN 0
        ELSE SeqSum([j \in 1..pow2(n) |->
                 IF psi[j] = 0 THEN 0
                 ELSE psi[i] * psi[j]
                        * ProjectorProductEntry(req, e, BitsOf(i, n), BitsOf(j, n))])])

\* C20: a sample() call that returns gives exactly `shots` values; each is the
\* product of one eigenvalue of every requested observable, chosen with a
\* joint probability that is not 0, and is 1 or -1 for a single observable
\* with the eigenvalues 1 and -1.
C20_SampleValues ==
    (call.op = "sample" /\ raised = NoExc) =>
        /\ Len(ret) = shots
        /\ \A i \in DOMAIN ret :
               \E e \in EigenChoices(call.req) :
                   /\ ret[i] = EigenProduct(call.req, e)
                   /\ JointProbability(PremeasurementState, num_wires, call.req, e) > 0
        /\ (Len(call.req) = 1 /\ SeqToSet(Eigenvalues(call.req[1].o)) = {1, -1}) =>
               \A i \in DOMAIN ret : ret[i] \in {1, -1}

\* samples of -1 of one observable on one wire
C20_Witness ==
    /\ call.op = "sample" /\ raised = NoExc
    /\ Len(ret) = shots /\ shots > 0
    /\ \A i \in DOMAIN ret : ret[i] = -1
    /\ Len(call.req) = 1 /\ call.req[1].o = "PauliZ"

\* the imaginary part of entry (out, inn) of the matrix A of an observable, or
\* of A.A when squared, in units of 1e-10
ObservableImag(ob, squared, out, inn) ==
    IF ~squared THEN OperatorImag(ob.o, ob.p, out, inn)
    ELSE SeqSum([m \in 1..pow2(Len(out)) |->
             OperatorEntry(ob.o, ob.p, out, BitsOf(m, Len(out)))
               * OperatorImag(ob.o, ob.p, BitsOf(m, Len(out)), inn)
             + OperatorImag(ob.o, ob.p, out, BitsOf(m, Len(out)))
               * OperatorEntry(ob.o, ob.p, BitsOf(m, Len(out)), inn)])

\* the imaginary part of entry (x, y) of the tensor product of the
\* observables of a request
RequestImagEntry(req, squared, x, y) ==
    IF \E i \in DOMAIN x : (i - 1) \notin RequestWires(req) /\ x[i] # y[i]
    THEN 0
    ELSE SeqSum([k \in DOMAIN req |->
             SeqProd([j \in DOMAIN req |->
                 IF j = k
                 THEN ObservableImag(req[j], squared, Pick(x, req[j].w), Pick(y, req[j].w))
                 ELSE ObservableEntry(req[j], squared, Pick(x, req[j].w),
                                      Pick(y, req[j].w))])])

\* the imaginary part of <psi| A |psi>
RequestImag(psi, n, req, squared) ==
    SeqSum([i \in 1..pow2(n) |->
        IF psi[i] = 0 THEN 0
        ELSE SeqSum([j \in 1..pow2(n) |->
                 IF psi[j] = 0 THEN 0
                 ELSE psi[i] * psi[j]
                        * RequestImagEntry(req, squared, BitsOf(i, n), BitsOf(j, n))])])

\* the imaginary parts a call warns about: those beyond the tolerance
BeyondTolerance(x) == x > TOL \/ -x > TOL
Warned(imags) == SelectSeq(imags, BeyondTolerance)

\* C21: expval() and var() on a prepared network return the real part
\* without raising, whatever the imaginary part; every expectation value
\* they compute whose imaginary part is beyond 1e-10 is warned about, and no
\* other; sample() of real observables warns of nothing.
C21_WarnBeyondTolerance ==
    /\ (call.op = "expval" /\ raised = NoExc) =>
        /\ ret = <<RequestExpectation(PremeasurementState, num_wires, call.req, FALSE)>>
        /\ warnings =
             Warned(<<RequestImag(PremeasurementState, num_wires, call.req, FALSE)>>)
    /\ (call.op = "var" /\ raised = NoExc) =>
        warnings =
             Warned(<<RequestImag(PremeasurementState, num_wires, call.req, TRUE),
                      RequestImag(PremeasurementState, num_wires, call.req, FALSE)>>)
    /\ (call.op \in {"expval", "var"}
          /\ \E k \in DOMAIN call.req : call.req[k].o = "PhaseShift") =>
        raised = NoExc
    /\ call.op = "sample" => warnings = <<>>

\* an expectation value with the imaginary part 2e-10 was warned about and
\* its real part returned
C21_Witness ==
    /\ call.op = "expval" /\ raised = NoExc
    /\ RequestImag(PremeasurementState, num_wires, call.req, FALSE) = 2
    /\ warnings = <<2>>
    /\ ret = <<1>>

\* C22: on a chain, a measurement call rejected with NotImplementedError
\* leaves the node lists and the connections as they were, and every entry
\* of the wire edge table dangling.
C22_RejectedMeasurementLeavesNetwork ==
    [][(_rep = "mps" /\ call'.op \in MeasurementOps
            /\ raised' = NearestNeighbourMeasurementError)
          => /\ UNCHANGED <<_nodes, conn, _free_wire_edges>>
             /\ \A w \in DOMAIN _free_wire_edges' :
                    Dangling(conn', _free_wire_edges'[w])]_vars

\* the node a gate call appended to the 'state' list
GateNode == _nodes["state"][Len(_nodes["state"])]

\* C23: an exact-mode gate call that returns appends exactly one node to the
\* 'state' list, connects its input axis k+i to the edge the table held for
\* wire w_i, which was dangling, and puts its output axis i in the table for
\* w_i; nothing else is connected, and the other table entries, the
\* 'observables' list, the contracted state and the count of contractions are
\* as they were.
C23_GateFrame ==
    [][(_rep = "exact" /\ IsGate(call') /\ raised' = NoExc)
          => LET ws == call'.wires.list
                 k == Len(ws)
                 node == _nodes'["state"][Len(_nodes'["state"])]
             IN  /\ _nodes'["state"] = Append(_nodes["state"], node)
                 /\ \A i \in DOMAIN _nodes["state"] : _nodes["state"][i].id # node.id
                 /\ node.name = call'.name /\ node.wires = ws /\ Rank(node) = 2 * k
                 /\ \A i \in 1..k :
                        /\ Dangling(conn, _free_wire_edges[ws[i] + 1])
                        /\ {<<node.id, k + i - 1>>, _free_wire_edges[ws[i] + 1]} \in conn'
                        /\ _free_wire_edges'[ws[i] + 1] = <<node.id, i - 1>>
                 /\ conn' = conn \cup {{<<node.id, k + i - 1>>, _free_wire_edges[ws[i] + 1]} :
                                          i \in 1..k}
                 /\ Len(_free_wire_edges') = Len(_free_wire_edges)
                 /\ \A w \in DOMAIN _free_wire_edges :
                        (w - 1) \notin SeqToSet(ws) => _free_wire_edges'[w] = _free_wire_edges[w]
                 /\ DOMAIN _nodes' = DOMAIN _nodes
                 /\ NodesOf(Dev, "observables")
                      = (IF "observables" \in DOMAIN _nodes' THEN _nodes'["observables"]
                         ELSE <<>>)
                 /\ UNCHANGED <<_contracted_state_node, contractions>>]_vars

\* a two-wire gate was applied while a contracted state was cached
C23_Witness ==
    /\ _rep = "exact" /\ IsGate(call) /\ raised = NoExc
    /\ Len(call.wires.list) = 2
    /\ GateNode.name = call.name
    /\ _free_wire_edges[call.wires.list[2] + 1] = <<GateNode.id, 1>>
    /\ pre.cached /\ _contracted_state_node # None

\* C24: in exact mode, after the state-preparation step the table entry of
\* every wire named in the wire groups is the edge of the node axis declared
\* for that wire, whatever order the groups are listed in.
C24_TableInWireOrder ==
    (_rep = "exact" /\ call.op = "_add_initial_state_nodes" /\ raised = NoExc)
        => \A i \in DOMAIN _nodes["state"] :
               \A a \in DOMAIN _nodes["state"][i].wires :
                   /\ _nodes["state"][i].wires[a] + 1 \in DOMAIN _free_wire_edges
                   /\ _free_wire_edges[_nodes["state"][i].wires[a] + 1]
                        = <<_nodes["state"][i].id, a - 1>>

\* whether the wires of a group are a contiguous range (line 227)
Contiguous(wires_seq) == SeqMax(wires_seq) - SeqMin(wires_seq) = Len(wires_seq) - 1

\* the chain has one node per wire, all different, and the table entry of every
\* wire is the physical axis of the chain node of that wire
ChainPerWire ==
    /\ mps # None
    /\ Len(mps[1].nodes) = num_wires
    /\ \A v, w \in 1..num_wires : mps[1].nodes[v] = mps[1].nodes[w] => v = w
    /\ Len(_free_wire_edges) = num_wires
    /\ \A w \in 1..num_wires : _free_wire_edges[w] = <<mps[1].nodes[w], 1>>

\* C25: on a chain, after construction, reset(), a state-preparation step that
\* returns and a gate that returns, the chain has one node per wire and the
\* table holds the physical axis of each; the state-preparation step raises
\* NotImplementedError exactly when a group of several wires is not a
\* contiguous range.
C25_ChainPerWire ==
    /\ (_rep = "mps" /\ raised = NoExc
          /\ (call.op \in {"__init__", "reset", "_add_initial_state_nodes"} \/ IsGate(call)))
        => ChainPerWire
    /\ (_rep = "mps" /\ call.op = "_add_initial_state_nodes")
        => IF \E i \in DOMAIN call.wires.list :
                  Len(call.wires.list[i]) > 1 /\ ~Contiguous(call.wires.list[i])
           THEN raised = ConsecutiveError
           ELSE raised = NoExc

\* a two-wire gate applied to a chain that a tensor on several wires was
\* split into
C25_Witness ==
    /\ _rep = "mps" /\ IsGate(call) /\ raised = NoExc
    /\ Len(call.wires.list) = 2
    /\ \E i \in DOMAIN _nodes["state"] : _nodes["state"][i].tensor.kind = "svd"
    /\ ChainPerWire
    /\ \A i \in DOMAIN _nodes["state"] :
           _free_wire_edges[call.wires.list[1] + 1][1] # _nodes["state"][i].id

\* the nodes sample() registered for the j-th projector combination
CombinationNodes(j) ==
    LET k == Len(call.req)
        off == Len(_nodes["observables"]) - k * SeqProd(ProjectorCounts(call.req))
    IN  [i \in 1..k |-> _nodes["observables"][off + (j - 1) * k + i]]

\* C26: after a sample() call, the j-th projector combination is one projector
\* of each observable, on the wires of its observable, and the j-th outcome
\* is the product of the eigenvalues of these projectors; on a basis state,
\* which is an eigenstate of every observable requested, every value returned
\* is the product of the observables' eigenvalues in that state.
C26_OutcomesAligned ==
    (call.op = "sample" /\ raised = NoExc) =>
        /\ \A j \in 1..SeqProd(ProjectorCounts(call.req)) :
               /\ \A i \in DOMAIN call.req :
                      /\ CombinationNodes(j)[i].wires = call.req[i].w
                      /\ CombinationNodes(j)[i].tensor.form = "proj"
                      /\ CombinationNodes(j)[i].tensor.op = call.req[i].o
               /\ Outcomes(call.req)[j]
                    = SeqProd([i \in DOMAIN call.req |->
                          Eigenvalues(call.req[i].o)[CombinationNodes(j)[i].tensor.data[1]]])
        /\ \A t \in DOMAIN ret :
               ret[t] = RequestExpectation(PremeasurementState, num_wires, call.req, FALSE)

\* a sample of two observables with the eigenvalues 1 and -1
C26_Witness ==
    /\ call.op = "sample" /\ raised = NoExc
    /\ Len(call.req) = 2
    /\ Len(ret) > 0 /\ \A t \in DOMAIN ret : ret[t] = -1
    /\ RequestExpectation(PremeasurementState, num_wires, <<call.req[1]>>, FALSE) = 1

\* the nodes a measurement call that returns adds for its request
AddedNodes(c) ==
    CASE c.op = "expval" -> Len(c.req)
      [] c.op = "var" -> 2 * Len(c.req)
      [] c.op = "sample" -> Len(c.req) * SeqProd(ProjectorCounts(c.req))
      [] OTHER -> 0

\* C27: a measurement call keeps the 'observables' nodes it finds, appends
\* to them (when it returns: one node per observable for expval(), two for
\* var(), one for every projector combination for sample()) and leaves the
\* 'state' list as it was; the 'observables' list gets shorter only in
\* reset() and in a state-preparation apply(), which empty it.
C27_ObservablesOnlyGrow ==
    [][LET before == NodesOf(Dev, "observables")
           after == IF "observables" \in DOMAIN _nodes' THEN _nodes'["observables"]
                    ELSE <<>>
       IN  /\ call'.op \in MeasurementOps
                => /\ Len(after) >= Len(before)
                   /\ SubSeq(after, 1, Len(before)) = before
                   /\ raised' = NoExc => Len(after) = Len(before) + AddedNodes(call')
                   /\ Len(call'.req) > 0 => Len(after) > Len(before)
                   /\ ("state" \in DOMAIN _nodes') = ("state" \in DOMAIN _nodes)
                   /\ "state" \in DOMAIN _nodes => _nodes'["state"] = _nodes["state"]
           /\ Len(after) < Len(before)
                => (call'.op = "reset" \/ IsStatePrep(call')) /\ after = <<>>
           /\ (call'.op = "reset" \/ (IsStatePrep(call') /\ raised' = NoExc))
                => after = <<>>]_vars

\* a var() call returned on a registry that already held observable nodes
C27_Witness ==
    /\ call.op = "var" /\ raised = NoExc
    /\ Len(_nodes["observables"]) > 2 * Len(call.req)
    /\ _nodes["observables"][1].tensor.form # "sq"

\* C28: no call changes the representation, and only a contraction_method
\* assignment that returns changes the contraction method: reset() and
\* apply() of a state preparation, like every other call, leave both as they
\* were.
C28_ConfigurationKept ==
    [][/\ _rep' = _rep
       /\ ~(call'.op = "contraction_method" /\ raised' = NoExc)
            => _contraction_method' = _contraction_method
       /\ (call'.op = "contraction_method" /\ raised' = NoExc)
            => _contraction_method' = call'.method]_vars

\* a state preparation on a chain configured with a method other than the
\* default
C28_Witness ==
    /\ IsStatePrep(call) /\ raised = NoExc
    /\ _rep = "mps" /\ _contraction_method = "greedy"
    /\ pre.touched
====
